---- MODULE Spec2Model ----
(***************************************************************************)
(* gcompare2.py: sanitize_id, load_file, Dataset, DataSlice and            *)
(* DatasetCollection.  A Python str is a sequence of one-character         *)
(* strings; a dict is a function; a set is a set.                          *)
(***************************************************************************)
EXTENDS Integers, Sequences, FiniteSets, TLC

VARIABLES
    sanFields, sanIn, sanOut, sanPc,      \* sanitize_id: argument (and the fields it was joined from), result, position
    rows, genes, skipped, loadPc,         \* load_file: rows read so far, locals, position
    objects, datasets, gene_names,        \* the Dataset objects made (by identity); DatasetCollection, its set holding identities
    order, slL, combos, yielded, slPc,    \* one slices() generator
    cur, rowsOut, gPos, gPc,              \* the slice last yielded and its genes() generator
    results, run, firstRun                \* what this slices() call produced so far, which call it is, the first call's results

sanVars == <<sanFields, sanIn, sanOut, sanPc>>
loadVars == <<rows, genes, skipped, loadPc>>
collVars == <<objects, datasets, gene_names>>
slVars == <<order, slL, combos, yielded, slPc, cur, rowsOut, gPos, gPc, results, run, firstRun>>
vars == <<sanVars, loadVars, collVars, slVars>>

None == "None"

-----------------------------------------------------------------------------
(* Bounds *)

MaxFields == 5          \* "-"-separated fields of an identifier given to sanitize_id
MaxRows == 3            \* data rows of one input file
MaxDatasets == 3        \* datasets added to a collection

-----------------------------------------------------------------------------
(* str *)

Min(a, b) == IF a <= b THEN a ELSE b

\* The characters used, in code point order.
Chars == <<" ", "&", "(", ")", "-", "1", "2", "A", "B", "C", "D", "F", "G", "N", "Q",
           "R", "a", "b", "l", "o", "r", "t", "u", "x", "z", "|">>

Ord(c) == CHOOSE i \in 1..Len(Chars) : Chars[i] = c

\* str.__lt__: lexicographic by code point, a proper prefix is smaller.
RECURSIVE StrLess(_, _)
StrLess(a, b) ==
    IF b = <<>> THEN FALSE
    ELSE IF a = <<>> THEN TRUE
    ELSE IF Head(a) = Head(b) THEN StrLess(Tail(a), Tail(b))
    ELSE Ord(Head(a)) < Ord(Head(b))

\* str.split(sep) for a one-character separator.
RECURSIVE SplitFrom(_, _, _, _)
SplitFrom(s, sep, i, field) ==
    IF i > Len(s) THEN <<field>>
    ELSE IF s[i] = sep THEN <<field>> \o SplitFrom(s, sep, i + 1, <<>>)
    ELSE SplitFrom(s, sep, i + 1, Append(field, s[i]))

split(s, sep) == SplitFrom(s, sep, 1, <<>>)

\* sep.join(fields)
RECURSIVE join(_, _)
join(sep, fields) ==
    IF fields = <<>> THEN <<>>
    ELSE IF Len(fields) = 1 THEN fields[1]
    ELSE fields[1] \o sep \o join(sep, Tail(fields))

\* fields[lo:hi] with 0 <= lo, Python's clamping of hi
Slice(fields, lo, hi) == SubSeq(fields, lo + 1, Min(hi, Len(fields)))

tRNA == <<"t", "R", "N", "A">>

-----------------------------------------------------------------------------
(* sanitize_id *)

\* A faulty sanitize_id: every leading tRNA field is dropped.
sanitize_id_dropall(ident) ==
    LET id_fields == split(ident, "-")
        RECURSIVE Drop(_)
        Drop(fs) == IF fs # <<>> /\ fs[1] = tRNA THEN Drop(Tail(fs)) ELSE fs
    IN  join(<<"-">>, Slice(Drop(id_fields), 0, 3))

sanitize_id(ident) ==
    LET id_fields == split(ident, "-")
        kept == IF id_fields[1] = tRNA THEN Slice(id_fields, 1, Len(id_fields))
                ELSE id_fields
    IN  join(<<"-">>, Slice(kept, 0, 3))

\* Identifiers: every "-"-join of up to MaxFields fields drawn from FieldPool,
\* and the two identifiers of the reference examples.
FieldPool == {<<>>, tRNA, <<"A">>, <<"t", "R">>}

RECURSIVE FieldSeqs(_)
FieldSeqs(n) ==
    IF n = 1 THEN {<<f>> : f \in FieldPool}
    ELSE LET shorter == FieldSeqs(n - 1)
         IN  shorter \cup {Append(fs, f) : fs \in {s \in shorter : Len(s) = n - 1}, f \in FieldPool}

Ex1Fields == <<tRNA, <<"A","l","a">>, <<"C","G","C">>, <<"1">>, <<"2">>>>
Ex2Fields == <<<<"F","o","o">>, <<"B","a","r">>, <<"B","a","z">>, <<"Q","u","x">>>>

Ex1In == <<"t","R","N","A","-","A","l","a","-","C","G","C","-","1","-","2">>
Ex1Out == <<"A","l","a","-","C","G","C","-","1">>
Ex2In == <<"F","o","o","-","B","a","r","-","B","a","z","-","Q","u","x">>
Ex2Out == <<"F","o","o","-","B","a","r","-","B","a","z">>

IdentifierFields == FieldSeqs(MaxFields) \cup {Ex1Fields, Ex2Fields}

SanCall ==
    /\ sanPc = "call"
    /\ sanOut' = sanitize_id(sanIn)
    /\ sanPc' = "return"
    /\ UNCHANGED <<sanFields, sanIn, loadVars, collVars, slVars>>

-----------------------------------------------------------------------------
(* load_file *)

GeneFields == <<"id", "iso", "foldcount", "p_value">>

\* Gene(*fields): a TypeError unless exactly len(Gene._fields) arguments are given.
GeneArgsOk(fields) == Len(fields) = Len(GeneFields)

Gene(fields) == [id |-> fields[1], iso |-> fields[2],
                 foldcount |-> fields[3], p_value |-> fields[4]]

\* A faulty store: a key already present keeps its record.
DictSetIfAbsent(d, key, g) ==
    [k \in DOMAIN d \cup {key} |-> IF k \in DOMAIN d THEN d[k] ELSE g]

\* genes[key] = g
DictSet(d, key, g) == [k \in DOMAIN d \cup {key} |-> IF k = key THEN g ELSE d[k]]

EmptyDict == [k \in {} |-> None]

\* Rows as csv.reader hands them over: 0 to 5 fields (a blank line is []).
RawIds == {<<"t","R","N","A","-","a">>, <<"a">>, <<"b","-","1","-","2","-","x">>}
FullRows == {<<i, <<"o">>, fc, <<"z">>, <<"x">>>> : i \in RawIds, fc \in {<<"u">>, <<"1">>}}
RowPool == {SubSeq(r, 1, n) : r \in FullRows, n \in 0..5}

\* One pass of the loop body of load_file over row l.
LoadRow ==
    /\ loadPc = "loop"
    /\ Len(rows) < MaxRows
    /\ \E l \in RowPool :
          LET fields == Slice(l, 0, Len(GeneFields)) IN
          /\ rows' = Append(rows, l)
          /\ IF fields = <<>>
             THEN \* fields[0] = ... : IndexError, not caught by "except TypeError"
                  /\ loadPc' = "IndexError"
                  /\ UNCHANGED <<genes, skipped>>
             ELSE LET fields1 == [fields EXCEPT ![1] = sanitize_id(fields[1])] IN
                  IF GeneArgsOk(fields1)
                  THEN /\ genes' = DictSet(genes, fields1[1], Gene(fields1))
                       /\ UNCHANGED <<skipped, loadPc>>
                  ELSE /\ skipped' = skipped + 1
                       /\ UNCHANGED <<genes, loadPc>>
    /\ UNCHANGED <<sanVars, collVars, slVars>>

\* The reader is exhausted: return genes, skipped.
LoadReturn ==
    /\ loadPc = "loop"
    /\ loadPc' = "return"
    /\ UNCHANGED <<rows, genes, skipped, sanVars, collVars, slVars>>

-----------------------------------------------------------------------------
(* Dataset *)

\* Canonical keys the loaded tables may hold.
GeneIds == {<<"a", "-", "1">>, <<"a">>}

\* The name given to the k-th Dataset made (the base name of its file).
DatasetNames == <<<<"B">>, <<"A", "B">>, <<"A">>, <<"C">>, <<"A", "A">>, <<"D">>>>

\* A table as load_file returns it: key -> Gene(key, iso, foldcount, p_value),
\* the payload strings telling the dataset and the gene apart.
TableOf(name, ids) ==
    [g \in ids |-> Gene(<<g, <<"o">>, name \o g \o <<"F">>, name \o g \o <<"Q">>>>)]

\* Dataset.__init__
Dataset(table, name) == [genes |-> table, name |-> name, ids |-> DOMAIN table]

\* The objects behind a sequence of identities.
Deref(heap, refs) == [i \in DOMAIN refs |-> heap[refs[i]]]

-----------------------------------------------------------------------------
(* Iteration and sorting *)

\* The orders in which iterating over set S may hand out its elements.
IterOrders(S) ==
    {f \in [1..Cardinality(S) -> S] : \A i, j \in DOMAIN f : i # j => f[i] # f[j]}

Range(f) == {f[i] : i \in DOMAIN f}

\* sorted(strings), the strings distinct
RECURSIVE SortedStrs(_)
SortedStrs(S) ==
    IF S = {} THEN <<>>
    ELSE LET m == CHOOSE x \in S : \A y \in S \ {x} : StrLess(x, y)
         IN  <<m>> \o SortedStrs(S \ {m})

\* sorted(ds, key=lambda d: d.name): a stable insertion into the sorted prefix
RECURSIVE InsertByName(_, _)
InsertByName(sorted, d) ==
    IF sorted = <<>> THEN <<d>>
    ELSE IF StrLess(d.name, Head(sorted).name) THEN <<d>> \o sorted
    ELSE <<Head(sorted)>> \o InsertByName(Tail(sorted), d)

\* A faulty sorted: the datasets as they come.
UnsortedByName(ds) == ds

RECURSIVE SortedByName(_)
SortedByName(ds) ==
    IF ds = <<>> THEN <<>>
    ELSE InsertByName(SortedByName(SubSeq(ds, 1, Len(ds) - 1)), ds[Len(ds)])

\* (combinations, for the faulty ones below)
RECURSIVE combinations_of(_, _)
combinations_of(pool, r) ==
    IF r = 0 THEN <<<<>>>>
    ELSE IF Len(pool) < r THEN <<>>
    ELSE LET withHead == combinations_of(Tail(pool), r - 1)
         IN  [i \in 1..Len(withHead) |-> <<Head(pool)>> \o withHead[i]]
             \o combinations_of(Tail(pool), r)

\* A faulty combinations: the first r-subsequence is handed out twice.
combinations_dup(pool, r) ==
    LET cs == combinations_of(pool, r) IN IF cs = <<>> THEN cs ELSE <<cs[1]>> \o cs

\* A faulty combinations: the sizes run downwards.
combinations_rev(pool, r) == combinations_of(pool, Len(pool) + 1 - r)

\* itertools.combinations(pool, r): the r-subsequences of pool, in lexicographic
\* order of their positions.
RECURSIVE combinations(_, _)
combinations(pool, r) ==
    IF r = 0 THEN <<<<>>>>
    ELSE IF Len(pool) < r THEN <<>>
    ELSE LET withHead == combinations(Tail(pool), r - 1)
         IN  [i \in 1..Len(withHead) |-> <<Head(pool)>> \o withHead[i]]
             \o combinations(Tail(pool), r)

-----------------------------------------------------------------------------
(* DataSlice *)

\* A faulty intersection: the union.
RECURSIVE Intersection_union(_)
Intersection_union(idsets) ==
    IF Len(idsets) = 1 THEN idsets[1]
    ELSE idsets[1] \cup Intersection_union(Tail(idsets))

\* ids[0].intersection(*ids[1:])
RECURSIVE Intersection(_)
Intersection(idsets) ==
    IF Len(idsets) = 1 THEN idsets[1]
    ELSE idsets[1] \cap Intersection(Tail(idsets))

\* s.difference(*idsets)
RECURSIVE Difference(_, _)
Difference(s, idsets) ==
    IF idsets = <<>> THEN s ELSE Difference(s \ Head(idsets), Tail(idsets))

\* A faulty _calc_ids: the excluded datasets' ids are not taken out.
calc_ids_nodiff(keep_datasets, exclude_datasets) ==
    LET keep_ids == [i \in DOMAIN keep_datasets |-> keep_datasets[i].ids]
    IN  IF keep_ids = <<>> THEN "IndexError" ELSE SortedStrs(Intersection(keep_ids))

\* DataSlice._calc_ids; keep_ids[0] is an IndexError when keep_datasets is empty
calc_ids(keep_datasets, exclude_datasets) ==
    LET keep_ids == [i \in DOMAIN keep_datasets |-> keep_datasets[i].ids]
        exclude_ids == [i \in DOMAIN exclude_datasets |-> exclude_datasets[i].ids]
    IN  IF keep_ids = <<>> THEN "IndexError"
        ELSE SortedStrs(Difference(Intersection(keep_ids), exclude_ids))

\* The names of ds, in the order given.
NamesOf(ds) == [i \in DOMAIN ds |-> ds[i].name]

\* "(%s) - (%s)" % (" & ".join(d.name for d in keep), " | ".join(d.name for d in exclude))
slice_name(keepIter, excludeIter) ==
    <<"(">> \o join(<<" ", "&", " ">>, NamesOf(keepIter)) \o <<")", " ", "-", " ", "(">>
            \o join(<<" ", "|", " ">>, NamesOf(excludeIter)) \o <<")">>

\* DataSlice.__init__.  keepIter and excludeIter are the orders in which the
\* sets keep and exclude (of identities) iterate.
DataSlice(heap, keepIter, excludeIter) ==
    [keep |-> Range(keepIter), exclude |-> Range(excludeIter),
     keepIter |-> keepIter, excludeIter |-> excludeIter,
     name |-> slice_name(Deref(heap, keepIter), Deref(heap, excludeIter)),
     ids |-> calc_ids(Deref(heap, keepIter), Deref(heap, excludeIter))]

\* DataSlice.fields
fields(heap, s) ==
    LET byName == SortedByName(Deref(heap, s.keepIter))
        Cols(f) == [i \in DOMAIN byName |-> byName[i].name \o <<" ", f>>]
    IN  SubSeq(GeneFields, 1, 2) \o Cols(GeneFields[3]) \o Cols(GeneFields[4])

\* getattr(g, f)
GetAttr(g, f) ==
    CASE f = "id" -> g.id [] f = "iso" -> g.iso
      [] f = "foldcount" -> g.foldcount [] f = "p_value" -> g.p_value

\* One row of DataSlice.genes, for id i; "KeyError" if some d.genes[i] misses.
gene_row(heap, s, names, i) ==
    LET name == IF i \in DOMAIN names THEN names[i] ELSE <<>>
        byName == SortedByName(Deref(heap, s.keepIter))
        Vals(f) == [k \in DOMAIN byName |-> GetAttr(byName[k].genes[i], f)]
    IN  IF \E k \in DOMAIN byName : i \notin DOMAIN byName[k].genes
        THEN "KeyError"
        ELSE <<i, name>> \o Vals(GeneFields[3]) \o Vals(GeneFields[4])

-----------------------------------------------------------------------------
(* DatasetCollection *)

\* DatasetCollection.add, of a Dataset just made from a loaded table
Add ==
    /\ slPc = "idle"
    /\ Len(objects) < MaxDatasets
    /\ \E ids \in SUBSET GeneIds :
          LET name == DatasetNames[Len(objects) + 1] IN
          objects' = Append(objects, Dataset(TableOf(name, ids), name))
    /\ datasets' = datasets \cup {Len(objects) + 1}
    /\ UNCHANGED <<gene_names, sanVars, loadVars, slVars>>

\* A faulty subtraction: self.datasets -= keep.
DatasetsAfterSubInPlace(ds, keep) == ds \ keep

\* self.datasets - keep builds a new set; self.datasets is what it was.
DatasetsAfterSub(ds, keep) == ds

\* exclude = self.datasets - keep
Exclude(ds, keep) == ds \ keep

\* A call of slices(): a new generator, suspended before its first statement.
\* A second call is made once the first is used up.
SlicesCall ==
    /\ \/ slPc = "idle"
       \/ slPc = "done" /\ gPc \in {"idle", "done"} /\ run = 1
    /\ run' = run + 1
    /\ firstRun' = IF run = 1 THEN results ELSE firstRun
    /\ slPc' = "created"
    /\ slL' = 0 /\ combos' = <<>> /\ order' = <<>>
    /\ yielded' = <<>> /\ results' = {}
    /\ cur' = None /\ rowsOut' = <<>> /\ gPos' = 0 /\ gPc' = "idle"
    /\ UNCHANGED <<sanVars, loadVars, collVars>>

\* The order in which set S iterates, S a subset of the set iterating as pool
\* does: a set of a few objects hashed by identity hands them out by hash slot,
\* so the subset keeps the pool's relative order.
IterOf(S, pool) == SelectSeq(pool, LAMBDA d : d \in S)

\* The generator runs up to its next yield: slice c of the combinations at hand.
YieldSlice(c, l, rest, pool) ==
    LET keep == Range(c)
        exclude == Exclude(datasets, keep)
        s == DataSlice(objects, IterOf(keep, pool), IterOf(exclude, pool))
    IN  /\ datasets' = DatasetsAfterSub(datasets, keep)
        /\ slL' = l /\ combos' = rest /\ order' = pool
        /\ IF s.ids = "IndexError"
           THEN /\ slPc' = "IndexError"
                /\ UNCHANGED <<cur, yielded, rowsOut, gPos, gPc>>
           ELSE /\ cur' = s
                /\ yielded' = Append(yielded, [keep |-> keep, exclude |-> exclude,
                                               ids |-> s.ids])
                /\ slPc' = "suspended"
                /\ rowsOut' = <<>> /\ gPos' = 0 /\ gPc' = "created"
        /\ UNCHANGED <<results, run, firstRun, gene_names, objects>>

\* next() on the slices() generator.  slL is l + 1 of the combinations at hand
\* (0 before the loop is entered); the caller has used up the genes() of the
\* slice before, as write_slice and the test do.  self.datasets, not modified,
\* iterates in one order (order) throughout the run, whichever it is.
SlicesNext ==
    /\ slPc \in {"created", "suspended"}
    /\ gPc \in {"idle", "done"}
    /\ IF combos # <<>>
       THEN YieldSlice(Head(combos), slL, Tail(combos), order)
       ELSE IF slL < Cardinality(datasets)
       THEN \E pool \in (IF slL = 0 THEN IterOrders(datasets) ELSE {order}) :
               LET cs == combinations(pool, slL + 1)
               IN  YieldSlice(Head(cs), slL + 1, Tail(cs), pool)
       ELSE /\ slPc' = "done"
            /\ UNCHANGED <<order, slL, combos, yielded, cur, rowsOut, gPos, gPc,
                           results, run, firstRun, collVars>>
    /\ UNCHANGED <<sanVars, loadVars>>

\* next() on the genes() generator of the slice last yielded.
GenesNext ==
    /\ gPc \in {"created", "suspended"}
    /\ IF gPos < Len(cur.ids)
       THEN LET row == gene_row(objects, cur, gene_names, cur.ids[gPos + 1]) IN
            IF row = "KeyError"
            THEN /\ gPc' = "KeyError"
                 /\ UNCHANGED <<rowsOut, gPos, results>>
            ELSE /\ rowsOut' = Append(rowsOut, row)
                 /\ gPos' = gPos + 1
                 /\ gPc' = "suspended"
                 /\ UNCHANGED results
       ELSE /\ gPc' = "done"
            /\ results' = results \cup {[keep |-> cur.keep, exclude |-> cur.exclude,
                                         ids |-> cur.ids, rows |-> rowsOut]}
            /\ UNCHANGED <<rowsOut, gPos>>
    /\ UNCHANGED <<order, slL, combos, yielded, slPc, cur, run, firstRun>>
    /\ UNCHANGED <<sanVars, loadVars, collVars>>

-----------------------------------------------------------------------------
(* Specifications *)

SanIdle == sanFields = <<>> /\ sanIn = <<>> /\ sanOut = None /\ sanPc = "idle"
LoadIdle == rows = <<>> /\ genes = EmptyDict /\ skipped = 0 /\ loadPc = "idle"
CollIdle == objects = <<>> /\ datasets = {} /\ gene_names = EmptyDict
SlIdle ==
    /\ order = <<>> /\ slL = 0 /\ combos = <<>> /\ yielded = <<>> /\ slPc = "idle"
    /\ cur = None /\ rowsOut = <<>> /\ gPos = 0 /\ gPc = "idle"
    /\ results = {} /\ run = 0 /\ firstRun = {}

SanInit ==
    /\ sanFields \in IdentifierFields
    /\ sanIn = join(<<"-">>, sanFields) /\ sanOut = None /\ sanPc = "call"
    /\ LoadIdle /\ CollIdle /\ SlIdle

SanNext == SanCall

SanSpec == SanInit /\ [][SanNext]_vars

LoadInit ==
    /\ rows = <<>> /\ genes = EmptyDict /\ skipped = 0 /\ loadPc = "loop"
    /\ SanIdle /\ CollIdle /\ SlIdle

LoadNext == LoadRow \/ LoadReturn

LoadSpec == LoadInit /\ [][LoadNext]_vars

\* gene_names is filled by no code of the module, only by a caller: one id is
\* given a display name and the other none, so that genes() looks up both a
\* present and an absent key.
GeneNameChoices == {[g \in {<<"a">>} |-> <<"G">>]}

Init ==
    /\ objects = <<>> /\ datasets = {} /\ gene_names \in GeneNameChoices
    /\ SlIdle /\ SanIdle /\ LoadIdle

Next == Add \/ SlicesCall \/ SlicesNext \/ GenesNext

Spec == Init /\ [][Next]_vars

-----------------------------------------------------------------------------
(* Properties *)

RECURSIVE Pow2(_)
Pow2(n) == IF n = 0 THEN 1 ELSE 2 * Pow2(n - 1)

\* The datasets of the collection that hold id g.
Holders(g) == {d \in datasets : g \in objects[d].ids}

\* Every id some dataset of the collection holds.
AllIds == UNION {objects[d].ids : d \in datasets}

\* A slice has been yielded by the run at hand.
HasSlice == gPc # "idle"

\* C1: one complete run of slices() over N datasets yields exactly 2^N - 1
\* slices, exactly one per non-empty subset S, with keep = S and exclude =
\* datasets \ S; over no datasets it yields nothing and raises nothing.
C1_OneSlicePerSubset ==
    /\ slPc # "IndexError"
    /\ \A i \in DOMAIN yielded :
          /\ yielded[i].keep # {}
          /\ yielded[i].keep \subseteq datasets
          /\ yielded[i].exclude = datasets \ yielded[i].keep
          /\ yielded[i].keep \cap yielded[i].exclude = {}
          /\ \A j \in DOMAIN yielded : i # j => yielded[i].keep # yielded[j].keep
    /\ slPc = "done" =>
          /\ Len(yielded) = Pow2(Cardinality(datasets)) - 1
          /\ {yielded[i].keep : i \in DOMAIN yielded} = (SUBSET datasets) \ {{}}

C1_Witness ==
    slPc = "done" /\ Cardinality(datasets) = 3 /\ Len(yielded) = 7

\* C2: the ids of a slice are strictly ascending and are exactly the ids held
\* by every dataset of keep and by no dataset of exclude.
C2_IdsAreTheCell ==
    HasSlice =>
        /\ \A i \in 1..(Len(cur.ids) - 1) : StrLess(cur.ids[i], cur.ids[i + 1])
        /\ Range(cur.ids) =
              {g \in AllIds \cup Range(cur.ids) :
                  /\ \A d \in cur.keep : g \in objects[d].ids
                  /\ \A d \in cur.exclude : g \notin objects[d].ids}

C2_Witness ==
    /\ HasSlice
    /\ Len(cur.ids) = 1
    /\ Cardinality(cur.keep) = 2
    /\ \E d \in cur.keep : Cardinality(objects[d].ids) = 2
    /\ \E d \in cur.exclude : objects[d].ids # {}

\* C3: the slices of one run partition the ids of the collection: an id held
\* by some dataset is in the ids of exactly one slice, the one whose keep is
\* the set of datasets holding it, and no slice has any other id.
C3_Partition ==
    /\ \A i \in DOMAIN yielded :
          \A g \in Range(yielded[i].ids) :
              /\ g \in AllIds
              /\ yielded[i].keep = Holders(g)
              /\ \A j \in DOMAIN yielded : g \in Range(yielded[j].ids) => j = i
    /\ slPc = "done" =>
          \A g \in AllIds : \E i \in DOMAIN yielded : g \in Range(yielded[i].ids)

C3_Witness ==
    /\ slPc = "done"
    /\ Cardinality(AllIds) = 2
    /\ \E i, j \in DOMAIN yielded :
          /\ i # j
          /\ Cardinality(yielded[i].keep) = 2
          /\ yielded[i].ids # <<>> /\ yielded[j].ids # <<>>

\* The position of dataset d among the datasets of keep, by ascending name.
NameRank(keep, d) ==
    1 + Cardinality({e \in keep : StrLess(objects[e].name, objects[d].name)})

\* C4: genes() yields one row per id of ids, in that order; a row is the id,
\* its display name ("" if it has none), then the foldcount of each dataset of
\* keep in ascending name order, then the p_value of each likewise; no lookup
\* misses, and a row is as long as fields() and in its column order.
C4_RowsJoinKeep ==
    /\ gPc # "KeyError"
    /\ HasSlice =>
          LET n == Cardinality(cur.keep)
              hdr == fields(objects, cur)
          IN  /\ Len(rowsOut) = gPos /\ gPos <= Len(cur.ids)
              /\ gPc = "done" => Len(rowsOut) = Len(cur.ids)
              /\ Len(hdr) = 2 + 2 * n
              /\ \A k \in DOMAIN rowsOut :
                    LET r == rowsOut[k]
                        g == cur.ids[k]
                    IN  /\ Len(r) = 2 + 2 * n
                        /\ r[1] = g
                        /\ r[2] = (IF g \in DOMAIN gene_names THEN gene_names[g] ELSE <<>>)
                        /\ \A d \in cur.keep :
                              LET c == NameRank(cur.keep, d) IN
                              /\ r[2 + c] = objects[d].genes[g].foldcount
                              /\ r[2 + n + c] = objects[d].genes[g].p_value
                              /\ hdr[2 + c] = objects[d].name \o <<" ", "foldcount">>
                              /\ hdr[2 + n + c] = objects[d].name \o <<" ", "p_value">>

C4_Witness ==
    /\ gPc = "done"
    /\ Len(rowsOut) = 2
    /\ Cardinality(cur.keep) = 2
    /\ StrLess(objects[cur.keepIter[2]].name, objects[cur.keepIter[1]].name)
    /\ rowsOut[1][2] # rowsOut[2][2]

\* C5: the name of a slice is "(" + the names of keep, ascending, joined by
\* " & " + ") - (" + the names of exclude, ascending, joined by " | " + ")".
C5_NameSortedByName ==
    HasSlice =>
        cur.name = <<"(">>
                   \o join(<<" ", "&", " ">>, SortedStrs({objects[d].name : d \in cur.keep}))
                   \o <<")", " ", "-", " ", "(">>
                   \o join(<<" ", "|", " ">>, SortedStrs({objects[d].name : d \in cur.exclude}))
                   \o <<")">>

\* C9: using slices() and genes() leaves the collection as it was (its set of
\* datasets, its gene names, every dataset), and a second complete run yields
\* the same set of (keep, exclude, ids, rows) as the first.
C9_RestartableNoEffect ==
    [][/\ slPc # "idle" =>
            /\ datasets' = datasets
            /\ gene_names' = gene_names
            /\ objects' = objects
       /\ (run' = 2 /\ slPc' = "done" /\ gPc' \in {"idle", "done"}) =>
            results' = firstRun']_vars

C9_Witness ==
    /\ run = 2 /\ slPc = "done" /\ gPc = "done"
    /\ Cardinality(results) = 7
    /\ \E x \in results : Len(x.rows) = 2

\* C10: within one run the slices come by size of keep, never decreasing: the
\* slices with one dataset first, the slice with all of them (and nothing
\* excluded) last.
C10_BySizeAscending ==
    /\ \A i, j \in DOMAIN yielded :
          i < j => Cardinality(yielded[i].keep) <= Cardinality(yielded[j].keep)
    /\ \A i \in DOMAIN yielded :
          i <= Cardinality(datasets) => Cardinality(yielded[i].keep) = 1
    /\ (slPc = "done" /\ datasets # {}) =>
          /\ yielded[Len(yielded)].keep = datasets
          /\ yielded[Len(yielded)].exclude = {}

C10_Witness ==
    /\ slPc = "done"
    /\ Cardinality(datasets) = 3
    /\ Cardinality(yielded[3].keep) = 1
    /\ Cardinality(yielded[4].keep) = 2
    /\ Cardinality(yielded[7].keep) = 3

\* C6: a data row of fewer than 4 fields (0, 1, 2 or 3) is counted and
\* skipped and never aborts the load: the load goes on, and skipped is the
\* number of such rows.
ShortRows == {i \in DOMAIN rows : Len(rows[i]) < Len(GeneFields)}

C6_ShortRowsSkipped ==
    /\ loadPc \in {"loop", "return"}
    /\ skipped = Cardinality(ShortRows)

\* The table load_file should hold after rows rs.
LongRows(rs) == {i \in DOMAIN rs : Len(rs[i]) >= Len(GeneFields)}

LastRowOf(rs, key) ==
    CHOOSE i \in LongRows(rs) :
        /\ sanitize_id(rs[i][1]) = key
        /\ \A j \in LongRows(rs) : sanitize_id(rs[j][1]) = key => j <= i

\* C7: the keys of the table are the normalized ids of the rows with at least
\* 4 fields, each key holding the first 4 fields of the last such row with
\* that normalized id; such rows never count as skipped.
C7_LastRowWins ==
    /\ DOMAIN genes = {sanitize_id(rows[i][1]) : i \in LongRows(rows)}
    /\ \A key \in DOMAIN genes :
          LET l == rows[LastRowOf(rows, key)]
          IN  genes[key] = [id |-> key, iso |-> l[2], foldcount |-> l[3], p_value |-> l[4]]
    /\ skipped <= Cardinality(ShortRows)

C7_Witness ==
    /\ loadPc = "return"
    /\ \E i, j \in LongRows(rows) :
          /\ i < j
          /\ rows[i][1] # rows[j][1]
          /\ sanitize_id(rows[i][1]) = sanitize_id(rows[j][1])
          /\ rows[i][3] # rows[j][3]
          /\ genes[sanitize_id(rows[j][1])].foldcount = rows[j][3]

\* C8: sanitize_id splits on "-", drops the first field if and only if it is
\* "tRNA" (one field at most), and joins the first three fields left (fewer
\* if fewer are left) by "-"; it returns for every string, its result has at
\* most three fields, and the two reference identifiers come out as stated.
DashCount(str) == Cardinality({i \in DOMAIN str : str[i] = "-"})

C8_SanitizeId ==
    sanPc = "return" =>
        LET rest == IF sanFields[1] = tRNA THEN Tail(sanFields) ELSE sanFields
            kept == [i \in 1..Min(3, Len(rest)) |-> rest[i]]
        IN  /\ sanOut = join(<<"-">>, kept)
            /\ DashCount(sanOut) <= 2
            /\ sanIn = Ex1In => sanOut = Ex1Out
            /\ sanIn = Ex2In => sanOut = Ex2Out

C8_Witness ==
    /\ sanPc = "return"
    /\ Len(sanFields) = 5
    /\ sanFields[1] = tRNA /\ sanFields[2] = tRNA
    /\ sanOut = join(<<"-">>, SubSeq(sanFields, 2, 4))

====
